---- MODULE Spec2Model ----
(***************************************************************************)
(* Section synchronisation core of superbinder: the client-side section    *)
(* store (addSection / updateSection / removeSection and the handlers of   *)
(* remote add / update / remove events with their dedup set), on two       *)
(* clients, and the server side: validateEntity, the update...State        *)
(* helpers over the section model, broadcastToChannel over the channels of *)
(* the registry, and the path of an event from validation to broadcast;    *)
(* also retryWithBackoff of the test helpers.                              *)
(***************************************************************************)
EXTENDS Integers, Sequences, FiniteSets, TLC

(***************************************************************************)
(* Bounds of the model.                                                    *)
(***************************************************************************)
MaxSections == 2      \* sections held by the store in the full client model
MaxTree == 4          \* sections held by the store in the structural model
MaxEmits == 1         \* length of the emit log in the full client model
MaxNow == 1           \* the clock stops advancing here
TickMs == 1000        \* granularity of the clock
MaxLog == 1           \* messages kept in the log of one socket
MaxDocs == 2          \* documents held by the section model
MaxEvents == 2        \* events the server accepts
MaxOps == 2           \* events one client emits while the other one listens
MaxTries == 3         \* largest maxRetries given to retryWithBackoff

(***************************************************************************)
(* JavaScript values.                                                      *)
(***************************************************************************)
Null == "null"
Undefined == "undefined"
Falsy(v) == v \in {Null, Undefined, ""}

Space == " "

RECURSIVE TrimLeft(_)
TrimLeft(s) ==
  IF s # <<>> /\ Head(s) = Space THEN TrimLeft(Tail(s)) ELSE s

RECURSIVE TrimRight(_)
TrimRight(s) ==
  IF s # <<>> /\ s[Len(s)] = Space THEN TrimRight(SubSeq(s, 1, Len(s) - 1)) ELSE s

TrimNone(s) == s

\* String.prototype.trim on a name given as its sequence of characters
Trim(s) == TrimRight(TrimLeft(s))

(***************************************************************************)
(* Input domains.                                                          *)
(***************************************************************************)
LocalUser == "test-user-uuid"
RemoteUser == "remote-user"

\* ids generated locally (uuid: each one fresh), in generation order
LocalIds == <<"l1", "l2", "l3", "l4">>
\* the id created by another client
RemoteIds == {"r1"}
\* the ids the other client generates, in generation order
PeerIds == <<"r1", "r2">>

NameA == <<"a">>
NameB == <<"b">>
Names == {<<Space>>, <<Space>> \o NameB \o <<Space>>}

\* the server's channel and its users
TestChannel == "test-channel"
TestUser == "test-user"
OtherUser == "other-user"
ThirdUser == "third-user"
Users == {TestUser, OtherUser, ThirdUser}
ChannelNames == {TestChannel, "non-existent-channel"}
OtherChannel == "other-channel"
\* the sockets createMockSocket yields, in creation order
SocketIds == <<"k1", "k2", "k3">>

VARIABLES
  sections,         \* sections.value: the list of section entities
  processedEvents,  \* the Set of event keys already handled
  timers,           \* pending setTimeout callbacks: event key -> ms left
  emitted,          \* the calls of mockEmit, in order
  now,              \* Date.now()
  nextId,           \* index of the next id the uuid generator yields
  peer,             \* the same store, dedup set, timers and emit log on the
                    \* client of the other user
  last,             \* the last call and what it returned
  channels,         \* server: the Map of channels, name -> channel
  socketLog,        \* server: the calls of emit on each mock socket
  nextSocket,       \* server: index of the next socket createMockSocket yields
  emitMode,         \* server: what emit does on each mock socket
  db,               \* server: the documents held by the section model
  tasks,            \* server: the events accepted and still in progress
  accepted,         \* server: the events accepted so far, in order
  delivered,        \* how many of the events the other client has emitted
                    \* each client has been sent and has handled
  retry             \* the call of retryWithBackoff under way

clientVars == <<sections, processedEvents, timers, emitted, nextId, peer>>
pipeVars == <<db, tasks, accepted>>
serverVars == <<channels, socketLog, nextSocket, emitMode, pipeVars>>
otherVars == <<delivered, retry>>
vars == <<clientVars, now, last, serverVars, otherVars>>

Range(f) == {f[i] : i \in DOMAIN f}

\* the ids held by the store
StoreIds == {sections[i].id : i \in 1..Len(sections)}

IndexOfNone(id) == 0

IndexOfFirst(id) == IF Len(sections) > 0 THEN 1 ELSE 0

\* Array.prototype.find / some on s.id === id: the first index, or 0
IndexOf(id) ==
  IF \E i \in 1..Len(sections) : sections[i].id = id
  THEN CHOOSE i \in 1..Len(sections) :
         /\ sections[i].id = id
         /\ \A j \in 1..(i - 1) : sections[j].id # id
  ELSE 0

\* (x || null)
OrNull(v) == IF Falsy(v) THEN Null ELSE v

\* (s.data.sectionId || null)
ParentKey(data) ==
  IF "sectionId" \in DOMAIN data THEN OrNull(data.sectionId) ELSE Null

\* sections.value.filter(s => (s.data.sectionId || null) === (sectionId || null))
Siblings(secs, sectionId) ==
  SelectSeq(secs, LAMBDA s : ParentKey(s.data) = OrNull(sectionId))

\* following the parent references from parent key p reaches target
RECURSIVE ChainReaches(_, _, _, _)
ChainReaches(secs, p, target, fuel) ==
  IF p = Null THEN FALSE
  ELSE IF p = target THEN TRUE
  ELSE IF fuel = 0 THEN FALSE
  ELSE \E i \in 1..Len(secs) :
         /\ secs[i].id = p
         /\ ChainReaches(secs, ParentKey(secs[i].data), target, fuel - 1)

\* the section at position i descends from the section with the given id
DescendsFrom(secs, i, id) ==
  ChainReaches(secs, ParentKey(secs[i].data), id, Len(secs))

\* the name is empty or made of whitespace only
IsBlank(name) == \A i \in 1..Len(name) : name[i] = Space

MergeReplace(old, new) == new

\* { ...old, ...new }
Merge(old, new) ==
  [k \in DOMAIN old \cup DOMAIN new |-> IF k \in DOMAIN new THEN new[k] ELSE old[k]]

WithoutThrough(secs, id) ==
  IF \E i \in 1..Len(secs) : secs[i].id = id
  THEN SubSeq(secs, 1 + (CHOOSE i \in 1..Len(secs) : secs[i].id = id), Len(secs))
  ELSE secs

\* sections.value.filter(s => s.id !== id)
Without(secs, id) == SelectSeq(secs, LAMBDA s : s.id # id)

\* const { id, data, timestamp } = eventObj
EvId(ev) == IF "id" \in DOMAIN ev THEN ev.id ELSE Undefined
HasData(ev) == "data" \in DOMAIN ev
\* typeof data.name === 'string'
HasName(data) == "name" \in DOMAIN data

\* `add-section-${id}-${timestamp}`
EventKey(id, timestamp) == <<"add-section", id, timestamp>>

SeenNever(eventKey) == FALSE

\* processedEvents.has(eventKey)
Seen(eventKey) == eventKey \in processedEvents

\* the delay given to setTimeout
TTL == 1000

NextOrderWrong(secs, sectionId) == Len(secs)

\* const order = siblings.length
NextOrder(secs, sectionId) == Len(Siblings(secs, sectionId))

Init ==
  /\ sections = <<>>
  /\ processedEvents = {}
  /\ timers = <<>>
  /\ emitted = <<>>
  /\ now = 1
  /\ nextId = 1
  /\ peer = [sections |-> <<>>, processedEvents |-> {}, timers |-> <<>>,
             emitted |-> <<>>, nextId |-> 1]
  /\ last = [op |-> "none"]
  /\ channels = (TestChannel :> [sockets |-> (TestUser :> SocketIds[1]),
                                 keys |-> <<TestUser>>,
                                 state |-> [sections |-> <<>>],
                                 locked |-> FALSE])
  /\ socketLog = [k \in Range(SocketIds) |-> <<>>]
  /\ nextSocket = 2
  /\ emitMode = [k \in Range(SocketIds) |-> "ok"]
  /\ db = <<>>
  /\ tasks = <<>>
  /\ accepted = <<>>
  /\ delivered = [here |-> 0, there |-> 0]
  /\ retry = [pc |-> "idle", maxRetries |-> 0, baseDelay |-> 0, i |-> 0,
              calls |-> <<>>, waits |-> <<>>, settled |-> <<>>]

(***************************************************************************)
(* Local operations.                                                       *)
(***************************************************************************)
addSection(name, sectionId) ==
  /\ nextId <= Len(LocalIds)
  /\ LET id == LocalIds[nextId]
         order == NextOrder(sections, sectionId)
         payload == [id |-> id, userUuid |-> LocalUser,
                     data |-> [name |-> Trim(name), sectionId |-> sectionId,
                               order |-> order],
                     timestamp |-> now]
     IN /\ sections' = Append(sections, payload)
        /\ emitted' = Append(emitted, [type |-> "add-section", payload |-> payload])
        /\ last' = [op |-> "addSection", name |-> name, sectionId |-> sectionId,
                    ret |-> payload]
  /\ nextId' = nextId + 1
  /\ UNCHANGED <<processedEvents, timers, now>>
  /\ UNCHANGED <<peer, serverVars, otherVars>>

updateSection(id, name) ==
  /\ LET i == IndexOf(id)
     IN IF i # 0
        THEN LET payload == [id |-> id, userUuid |-> LocalUser,
                             data |-> Merge(sections[i].data, [name |-> Trim(name)]),
                             timestamp |-> now]
             IN /\ sections' = [sections EXCEPT ![i].data =
                                  Merge(@, [name |-> Trim(name)])]
                /\ emitted' = Append(emitted,
                                     [type |-> "update-section", payload |-> payload])
                /\ last' = [op |-> "updateSection", id |-> id, name |-> name,
                            ret |-> TRUE]
        ELSE /\ last' = [op |-> "updateSection", id |-> id, name |-> name,
                         ret |-> FALSE]
             /\ UNCHANGED <<sections, emitted>>
  /\ UNCHANGED <<processedEvents, timers, now, nextId>>
  /\ UNCHANGED <<peer, serverVars, otherVars>>

removeSection(id) ==
  /\ IF IndexOf(id) # 0
     THEN LET payload == [id |-> id, userUuid |-> LocalUser, data |-> Null,
                          timestamp |-> now]
          IN /\ sections' = Without(sections, id)
             /\ emitted' = Append(emitted,
                                  [type |-> "remove-section", payload |-> payload])
             /\ last' = [op |-> "removeSection", id |-> id, ret |-> TRUE]
     ELSE /\ last' = [op |-> "removeSection", id |-> id, ret |-> FALSE]
          /\ UNCHANGED <<sections, emitted>>
  /\ UNCHANGED <<processedEvents, timers, now, nextId>>
  /\ UNCHANGED <<peer, serverVars, otherVars>>

\* mockEmit.mockClear()
mockClear ==
  /\ emitted # <<>>
  /\ emitted' = <<>>
  /\ last' = [op |-> "mockClear"]
  /\ UNCHANGED <<sections, processedEvents, timers, now, nextId>>
  /\ UNCHANGED <<peer, serverVars, otherVars>>

(***************************************************************************)
(* Handlers of the events received from other users.                       *)
(***************************************************************************)
handleAddSection(ev) ==
  /\ LET id == EvId(ev)
         eventKey == EventKey(id, ev.timestamp)
     IN IF ~Seen(eventKey)
        THEN /\ processedEvents' = processedEvents \cup {eventKey}
             /\ sections' = IF IndexOf(id) = 0
                            THEN Append(sections, [id |-> id,
                                                   userUuid |-> ev.userUuid,
                                                   data |-> ev.data])
                            ELSE sections
             /\ timers' = [k \in DOMAIN timers \cup {eventKey} |->
                             IF k = eventKey THEN TTL ELSE timers[k]]
        ELSE UNCHANGED <<sections, processedEvents, timers>>
  /\ last' = [op |-> "handleAddSection", ev |-> ev, ret |-> Undefined]
  /\ UNCHANGED <<emitted, now, nextId>>
  /\ UNCHANGED <<peer, serverVars, otherVars>>

handleUpdateSection(ev) ==
  /\ IF Falsy(EvId(ev)) \/ ~HasData(ev) \/ ~HasName(ev.data)
        \/ Trim(ev.data.name) = <<>>
     THEN /\ last' = [op |-> "handleUpdateSection", ev |-> ev, ret |-> FALSE]
          /\ UNCHANGED sections
     ELSE LET i == IndexOf(ev.id)
          IN IF i # 0
             THEN /\ sections' = [sections EXCEPT ![i].data = Merge(@, ev.data)]
                  /\ last' = [op |-> "handleUpdateSection", ev |-> ev,
                              ret |-> TRUE]
             ELSE /\ last' = [op |-> "handleUpdateSection", ev |-> ev,
                              ret |-> FALSE]
                  /\ UNCHANGED sections
  /\ UNCHANGED <<processedEvents, timers, emitted, now, nextId>>
  /\ UNCHANGED <<peer, serverVars, otherVars>>

handleRemoveSection(ev) ==
  /\ IF Falsy(EvId(ev))
     THEN /\ last' = [op |-> "handleRemoveSection", ev |-> ev, ret |-> FALSE]
          /\ UNCHANGED sections
     ELSE /\ sections' = Without(sections, ev.id)
          /\ last' = [op |-> "handleRemoveSection", ev |-> ev,
                      ret |-> (Len(Without(sections, ev.id)) < Len(sections))]
  /\ UNCHANGED <<processedEvents, timers, emitted, now, nextId>>
  /\ UNCHANGED <<peer, serverVars, otherVars>>

TimerFireKeeps(eventKey) ==
  /\ eventKey \in DOMAIN timers
  /\ timers[eventKey] = 0
  /\ timers' = [k \in DOMAIN timers \ {eventKey} |-> timers[k]]
  /\ last' = [op |-> "timer", key |-> eventKey]
  /\ UNCHANGED <<sections, processedEvents, emitted, now, nextId>>
  /\ UNCHANGED <<peer, serverVars, otherVars>>

\* setTimeout(() => processedEvents.delete(eventKey), 1000)
TimerFire(eventKey) ==
  /\ eventKey \in DOMAIN timers
  /\ timers[eventKey] = 0
  /\ processedEvents' = processedEvents \ {eventKey}
  /\ timers' = [k \in DOMAIN timers \ {eventKey} |-> timers[k]]
  /\ last' = [op |-> "timer", key |-> eventKey]
  /\ UNCHANGED <<sections, emitted, now, nextId>>
  /\ UNCHANGED <<peer, serverVars, otherVars>>

Tick ==
  /\ now' = IF now + TickMs <= MaxNow THEN now + TickMs ELSE MaxNow
  /\ timers' = [k \in DOMAIN timers |->
                  IF timers[k] > TickMs THEN timers[k] - TickMs ELSE 0]
  /\ last' = [op |-> "tick"]
  /\ UNCHANGED <<sections, processedEvents, emitted, nextId>>
  /\ UNCHANGED <<peer, serverVars, otherVars>>

(***************************************************************************)
(* The client of the other user runs the same code on its own state.       *)
(***************************************************************************)
\* addSection there
peerAddSection(name, sectionId) ==
  /\ peer.nextId <= Len(PeerIds)
  /\ LET id == PeerIds[peer.nextId]
         order == NextOrder(peer.sections, sectionId)
         payload == [id |-> id, userUuid |-> RemoteUser,
                     data |-> [name |-> Trim(name), sectionId |-> sectionId,
                               order |-> order],
                     timestamp |-> now]
     IN /\ peer' = [peer EXCEPT
                      !.sections = Append(@, payload),
                      !.emitted = Append(@, [type |-> "add-section",
                                             payload |-> payload]),
                      !.nextId = @ + 1]
        /\ last' = [op |-> "peerAddSection", name |-> name,
                    sectionId |-> sectionId, ret |-> payload]
  /\ UNCHANGED <<sections, processedEvents, timers, emitted, nextId, now>>
  /\ UNCHANGED <<serverVars, otherVars>>

\* handleAddSection there
peerHandleAddSection(ev) ==
  /\ LET id == EvId(ev)
         eventKey == EventKey(id, ev.timestamp)
     IN IF eventKey \notin peer.processedEvents
        THEN peer' = [peer EXCEPT
                        !.processedEvents = @ \cup {eventKey},
                        !.sections =
                           IF \A i \in 1..Len(@) : @[i].id # id
                           THEN Append(@, [id |-> id, userUuid |-> ev.userUuid,
                                           data |-> ev.data])
                           ELSE @,
                        !.timers = [k \in DOMAIN @ \cup {eventKey} |->
                                      IF k = eventKey THEN TTL ELSE @[k]]]
        ELSE UNCHANGED peer
  /\ last' = [op |-> "peerHandleAddSection", ev |-> ev, ret |-> Undefined]
  /\ UNCHANGED <<sections, processedEvents, timers, emitted, nextId, now>>
  /\ UNCHANGED <<serverVars, otherVars>>

\* updateSection there
peerUpdateSection(id, name) ==
  /\ \E i \in 1..Len(peer.sections) :
       /\ peer.sections[i].id = id
       /\ \A j \in 1..(i - 1) : peer.sections[j].id # id
       /\ LET payload == [id |-> id, userUuid |-> RemoteUser,
                          data |-> Merge(peer.sections[i].data,
                                         [name |-> Trim(name)]),
                          timestamp |-> now]
          IN peer' = [peer EXCEPT
                        !.sections[i].data = Merge(@, [name |-> Trim(name)]),
                        !.emitted = Append(@, [type |-> "update-section",
                                               payload |-> payload])]
  /\ last' = [op |-> "peerUpdateSection", id |-> id, name |-> name, ret |-> TRUE]
  /\ UNCHANGED <<sections, processedEvents, timers, emitted, nextId, now>>
  /\ UNCHANGED <<serverVars, otherVars>>

\* removeSection there
peerRemoveSection(id) ==
  /\ \E i \in 1..Len(peer.sections) : peer.sections[i].id = id
  /\ LET payload == [id |-> id, userUuid |-> RemoteUser, data |-> Null,
                     timestamp |-> now]
     IN peer' = [peer EXCEPT
                   !.sections = Without(@, id),
                   !.emitted = Append(@, [type |-> "remove-section",
                                          payload |-> payload])]
  /\ last' = [op |-> "peerRemoveSection", id |-> id, ret |-> TRUE]
  /\ UNCHANGED <<sections, processedEvents, timers, emitted, nextId, now>>
  /\ UNCHANGED <<serverVars, otherVars>>

\* what the handler of a message of the given type makes of the store of a
\* client, given as its sections, processedEvents and timers:
\* handleAddSection, handleUpdateSection or handleRemoveSection
Handled(store, message) ==
  LET id == message.id
      secs == store.sections
      at == {i \in 1..Len(secs) : secs[i].id = id}
  IN IF message.type = "add-section"
     THEN LET eventKey == EventKey(id, message.timestamp)
          IN IF eventKey \notin store.processedEvents
             THEN [store EXCEPT
                     !.processedEvents = @ \cup {eventKey},
                     !.sections =
                        IF at = {}
                        THEN Append(@, [id |-> id, userUuid |-> message.userUuid,
                                        data |-> message.data])
                        ELSE @,
                     !.timers = [k \in DOMAIN @ \cup {eventKey} |->
                                   IF k = eventKey THEN TTL ELSE @[k]]]
             ELSE store
     ELSE IF message.type = "update-section"
     THEN IF \/ Falsy(id)
             \/ ~HasName(message.data)
             \/ Trim(message.data.name) = <<>>
             \/ at = {}
          THEN store
          ELSE LET i == CHOOSE i \in at : \A j \in at : i <= j
               IN [store EXCEPT !.sections[i].data = Merge(@, message.data)]
     ELSE IF Falsy(id) THEN store
          ELSE [store EXCEPT !.sections = Without(@, id)]

(***************************************************************************)
(* Server-side helpers.                                                    *)
(***************************************************************************)
\* validateEntity(payload, entityType, operation): { valid, message }, the
\* message given as its words
validateEntity(payload, entityType, operation) ==
  IF Falsy(EvId(payload))
  THEN [valid |-> FALSE,
        message |-> <<"Invalid", entityType, "data for", operation, "missing id">>]
  ELSE [valid |-> TRUE, message |-> <<>>]

\* a call of validateEntity
Validate(payload, operation) ==
  /\ last' = [op |-> "validateEntity", payload |-> payload,
              operation |-> operation,
              ret |-> validateEntity(payload, "sections", operation)]
  /\ UNCHANGED <<clientVars, otherVars, now, serverVars>>

\* const otherSocket = createMockSocket(); channel.sockets[userUuid] = otherSocket
Join(channelName, userUuid) ==
  /\ channelName \in DOMAIN channels
  /\ nextSocket <= Len(SocketIds)
  /\ LET sockets == channels[channelName].sockets
     IN /\ IF userUuid \in DOMAIN sockets THEN sockets[userUuid] = Null ELSE TRUE
        /\ channels' = [channels EXCEPT
                          ![channelName].sockets =
                             [u \in DOMAIN sockets \cup {userUuid} |->
                                IF u = userUuid THEN SocketIds[nextSocket]
                                ELSE sockets[u]],
                          ![channelName].keys =
                             IF userUuid \in DOMAIN sockets THEN @
                             ELSE Append(@, userUuid)]
  /\ nextSocket' = nextSocket + 1
  /\ last' = [op |-> "join", channel |-> channelName, userUuid |-> userUuid]
  /\ UNCHANGED <<clientVars, otherVars, now, socketLog, emitMode, pipeVars>>

\* channels.set(channelName, { ... }): a further channel, no user in it yet
OpenChannel(channelName) ==
  /\ channelName \notin DOMAIN channels
  /\ channels' = [c \in DOMAIN channels \cup {channelName} |->
                    IF c = channelName
                    THEN [sockets |-> <<>>, keys |-> <<>>,
                          state |-> [sections |-> <<>>], locked |-> FALSE]
                    ELSE channels[c]]
  /\ last' = [op |-> "openChannel", channel |-> channelName]
  /\ UNCHANGED <<clientVars, otherVars, now, socketLog, nextSocket, emitMode,
                 pipeVars>>

\* the connection of a user goes away: its entry holds no socket any more
Leave(channelName, userUuid) ==
  /\ channelName \in DOMAIN channels
  /\ userUuid \in DOMAIN channels[channelName].sockets
  /\ channels[channelName].sockets[userUuid] # Null
  /\ channels' = [channels EXCEPT ![channelName].sockets[userUuid] = Null]
  /\ last' = [op |-> "leave", channel |-> channelName, userUuid |-> userUuid]
  /\ UNCHANGED <<clientVars, otherVars, now, socketLog, nextSocket, emitMode, pipeVars>>

\* payload.data, payload.timestamp
PayloadData(payload) == IF "data" \in DOMAIN payload THEN payload.data ELSE Undefined
PayloadStamp(payload) ==
  IF "timestamp" \in DOMAIN payload THEN payload.timestamp ELSE 0

\* the message broadcastToChannel builds; (x || serverTimestamp) on a number
Message(type, payload, serverTimestamp) ==
  [type |-> type,
   id |-> EvId(payload),
   userUuid |-> payload.userUuid,
   data |-> PayloadData(payload),
   timestamp |-> IF PayloadStamp(payload) = 0 THEN serverTimestamp
                 ELSE PayloadStamp(payload),
   serverTimestamp |-> serverTimestamp]

RecipientsAll(channel, excludeUuid) ==
  {u \in DOMAIN channel.sockets : channel.sockets[u] # Null}

\* the keys of channel.sockets that pass
\* userUuid !== excludeUuid && channel.sockets[userUuid]
Recipients(channel, excludeUuid) ==
  {u \in DOMAIN channel.sockets :
     u # excludeUuid /\ channel.sockets[u] # Null}

\* the users whose socket gets the message: for...in visits the keys of
\* channel.sockets in insertion order, an emit that throws ends the loop, an
\* emit that loses the message goes on to the next key
Reached(channel, excludeUuid) ==
  LET keys == channel.keys
      pass(i) == keys[i] \in Recipients(channel, excludeUuid)
      mode(i) == emitMode[channel.sockets[keys[i]]]
      stopped(i) == \E j \in 1..i : pass(j) /\ mode(j) = "throws"
  IN {keys[i] : i \in {n \in 1..Len(keys) :
                         pass(n) /\ mode(n) = "ok" /\ ~stopped(n)}}

\* the loop was left by an exception
Threw(channel, excludeUuid) ==
  \E u \in Recipients(channel, excludeUuid) : emitMode[channel.sockets[u]] = "throws"

RECURSIVE PrependTimes(_, _, _)
PrependTimes(log, message, n) ==
  IF n = 0 THEN log ELSE PrependTimes(<<message>> \o log, message, n - 1)

RECURSIVE AppendTimes(_, _, _)
AppendTimes(log, message, n) ==
  IF n = 0 THEN log ELSE AppendTimes(Append(log, message), message, n - 1)

EmitsEverywhere(channel, type, payload, excludeUuid) ==
  [k \in DOMAIN socketLog |->
     Append(socketLog[k], Message(type, payload, now))]

\* the logs of the sockets after the loop over channel.sockets
Emits(channel, type, payload, excludeUuid) ==
  LET message == Message(type, payload, now)
      to == Reached(channel, excludeUuid)
  IN [k \in DOMAIN socketLog |->
        AppendTimes(socketLog[k], message,
                    Cardinality({u \in to : channel.sockets[u] = k}))]

broadcastToChannel(channelName, type, payload, excludeUuid) ==
  /\ IF channelName \in DOMAIN channels
     THEN LET channel == channels[channelName]
          IN /\ socketLog' = Emits(channel, type, payload, excludeUuid)
             /\ last' = [op |-> "broadcastToChannel", channel |-> channelName,
                         type |-> type, payload |-> payload,
                         excludeUuid |-> excludeUuid,
                         threw |-> Threw(channel, excludeUuid)]
     ELSE /\ UNCHANGED socketLog
          /\ last' = [op |-> "broadcastToChannel", channel |-> channelName,
                      type |-> type, payload |-> payload,
                      excludeUuid |-> excludeUuid, threw |-> FALSE]
  /\ UNCHANGED <<clientVars, otherVars, now, channels, nextSocket, emitMode, pipeVars>>

\* socket.emit.mockImplementation(...): from now on emit on this socket
\* delivers, throws, or returns without the message going out
setEmitMode(socket, mode) ==
  /\ emitMode[socket] # mode
  /\ emitMode' = [emitMode EXCEPT ![socket] = mode]
  /\ last' = [op |-> "setEmitMode", socket |-> socket, mode |-> mode]
  /\ UNCHANGED <<clientVars, otherVars, now, channels, socketLog, nextSocket, pipeVars>>

(***************************************************************************)
(* The section model (mockSectionModel) and the helpers that write to it.  *)
(***************************************************************************)
MatchesId(doc, filter) == doc.id = filter.id

\* the document has every field of the filter with the same value
Matches(doc, filter) ==
  \A k \in DOMAIN filter : k \in DOMAIN doc /\ doc[k] = filter[k]

\* position of the first document that matches the filter, or 0
FirstMatch(docs, filter) ==
  IF \E i \in 1..Len(docs) : Matches(docs[i], filter)
  THEN CHOOSE i \in 1..Len(docs) :
         /\ Matches(docs[i], filter)
         /\ \A j \in 1..(i - 1) : ~Matches(docs[j], filter)
  ELSE 0

\* Model.create(entity)
create(docs, entity) == Append(docs, entity)

\* Model.updateOne(filter, { $set: fields })
updateOne(docs, filter, fields) ==
  LET i == FirstMatch(docs, filter)
  IN IF i = 0 THEN docs ELSE [docs EXCEPT ![i] = Merge(@, fields)]

\* Model.deleteOne(filter)
deleteOne(docs, filter) ==
  LET i == FirstMatch(docs, filter)
  IN IF i = 0 THEN docs
     ELSE SubSeq(docs, 1, i - 1) \o SubSeq(docs, i + 1, Len(docs))

\* payload.timestamp
PayloadTime(payload) ==
  IF "timestamp" \in DOMAIN payload THEN payload.timestamp ELSE Undefined

\* { ...payload.data, color: '#808080' }; spreading undefined adds nothing
WithColor(payload) ==
  IF HasData(payload) THEN Merge(payload.data, [color |-> "#808080"])
  ELSE [color |-> "#808080"]

\* each helper awaits one call of the model, which resolves or rejects: the
\* documents afterwards, whether the helper threw, and what it returned
updateCreateStateQuiet(channelName, entityType, payload, resolves) ==
  [db |-> IF resolves
          THEN create(db, [id |-> EvId(payload), channel |-> channelName,
                           userUuid |-> payload.userUuid,
                           channelName |-> channelName,
                           data |-> WithColor(payload),
                           timestamp |-> PayloadTime(payload),
                           serverTimestamp |-> now])
          ELSE db,
   threw |-> FALSE, ret |-> Undefined]

updateCreateState(channelName, entityType, payload, resolves) ==
  LET entity == [id |-> EvId(payload),
                 channel |-> channelName,
                 userUuid |-> payload.userUuid,
                 channelName |-> channelName,
                 data |-> WithColor(payload),
                 timestamp |-> PayloadTime(payload),
                 serverTimestamp |-> now]
  IN IF resolves
     THEN [db |-> create(db, entity), threw |-> FALSE, ret |-> entity]
     ELSE [db |-> db, threw |-> TRUE, ret |-> Undefined]

updateUpdateState(channelName, entityType, payload, resolves) ==
  IF resolves
  THEN [db |-> updateOne(db, [id |-> EvId(payload), channel |-> channelName],
                         [data |-> PayloadData(payload),
                          timestamp |-> PayloadTime(payload),
                          serverTimestamp |-> now]),
        threw |-> FALSE, ret |-> Undefined]
  ELSE [db |-> db, threw |-> TRUE, ret |-> Undefined]

updateDeleteState(channelName, entityType, payload, resolves) ==
  IF resolves
  THEN [db |-> deleteOne(db, [id |-> EvId(payload), channel |-> channelName]),
        threw |-> FALSE, ret |-> Undefined]
  ELSE [db |-> db, threw |-> TRUE, ret |-> Undefined]

\* the helper that persists an event of the given type
Persisted(channelName, type, payload, resolves) ==
  IF type = "add-section"
  THEN updateCreateState(channelName, "sections", payload, resolves)
  ELSE IF type = "update-section"
       THEN updateUpdateState(channelName, "sections", payload, resolves)
       ELSE updateDeleteState(channelName, "sections", payload, resolves)

\* await update...State(channelName, 'sections', payload)
CallHelper(channelName, type, payload, resolves) ==
  /\ LET r == Persisted(channelName, type, payload, resolves)
     IN /\ db' = r.db
        /\ last' = [op |-> "persist", channel |-> channelName, type |-> type,
                    payload |-> payload, resolves |-> resolves,
                    threw |-> r.threw]
  /\ UNCHANGED <<clientVars, otherVars, now, channels, socketLog, nextSocket, emitMode,
                 tasks, accepted>>

(***************************************************************************)
(* The path of an event through the server: validated, applied to the      *)
(* state of its channel, persisted, broadcast to the other users.          *)
(***************************************************************************)
\* the operation an event type stands for (sectionConfig.events)
OperationOf(type) ==
  IF type = "add-section" THEN "add"
  ELSE IF type = "update-section" THEN "update" ELSE "remove"

\* position of the entity with the given id in the state of a channel, or 0
PositionIn(secs, id) ==
  IF \E i \in 1..Len(secs) : secs[i].id = id
  THEN CHOOSE i \in 1..Len(secs) : secs[i].id = id
  ELSE 0

\* entity store: add(entity)
StoreAdd(secs, payload) ==
  IF PositionIn(secs, payload.id) # 0
  THEN [ok |-> FALSE, error |-> "DuplicateIdError", sections |-> secs]
  ELSE [ok |-> TRUE, error |-> "",
        sections |-> Append(secs, [id |-> payload.id,
                                   userUuid |-> payload.userUuid,
                                   data |-> payload.data])]

\* entity store: patch(id, partialData)
StorePatch(secs, payload) ==
  LET i == PositionIn(secs, payload.id)
  IN IF i = 0
     THEN [ok |-> FALSE, error |-> "NotFoundError", sections |-> secs]
     ELSE LET merged == IF HasData(payload) THEN Merge(secs[i].data, payload.data)
                        ELSE secs[i].data
          IN IF HasName(merged) /\ Trim(merged.name) = <<>>
             THEN [ok |-> FALSE, error |-> "ValidationError", sections |-> secs]
             ELSE [ok |-> TRUE, error |-> "",
                   sections |-> [secs EXCEPT ![i].data = merged,
                                             ![i].userUuid = payload.userUuid]]

\* entity store: remove(id), the descendants going with it
StoreRemove(secs, payload) ==
  IF PositionIn(secs, payload.id) = 0
  THEN [ok |-> FALSE, error |-> "NotFoundError", sections |-> secs]
  ELSE [ok |-> TRUE, error |-> "",
        sections |->
          SelectSeq(secs, LAMBDA e :
            /\ e.id # payload.id
            /\ ~ChainReaches(secs, ParentKey(e.data), payload.id, Len(secs)))]

StoreApply(secs, type, payload) ==
  IF type = "add-section" THEN StoreAdd(secs, payload)
  ELSE IF type = "update-section" THEN StorePatch(secs, payload)
  ELSE StoreRemove(secs, payload)

LockedNever(channel) == FALSE

\* channel.locked
Locked(channel) == channel.locked

\* the flag of a channel is set or cleared
SetLocked(channelName, locked) ==
  /\ channelName \in DOMAIN channels
  /\ channels[channelName].locked # locked
  /\ channels' = [channels EXCEPT ![channelName].locked = locked]
  /\ last' = [op |-> "setLocked", channel |-> channelName, locked |-> locked]
  /\ UNCHANGED <<clientVars, otherVars, now, socketLog, nextSocket, emitMode, pipeVars>>

AcceptUnapplied(channelName, type, payload) ==
  /\ channelName \in DOMAIN channels
  /\ tasks' = Append(tasks, [channel |-> channelName, type |-> type,
                             payload |-> payload, pc |-> "persist",
                             failed |-> FALSE])
  /\ accepted' = Append(accepted, [channel |-> channelName, type |-> type,
                                   payload |-> payload])
  /\ last' = [op |-> "accept", channel |-> channelName, type |-> type,
              payload |-> payload, ok |-> TRUE, error |-> <<>>]
  /\ UNCHANGED <<clientVars, otherVars, now, channels, socketLog, nextSocket, emitMode, db>>

\* an event arrives: a locked channel turns it away; otherwise it is
\* validated and, when valid, applied to the state of the channel in the
\* same step; only then is it handed on to be persisted and broadcast
Accept(channelName, type, payload) ==
  /\ LET v == validateEntity(payload, "sections", OperationOf(type))
         reject(error) ==
           /\ last' = [op |-> "accept", channel |-> channelName, type |-> type,
                       payload |-> payload, ok |-> FALSE, error |-> error]
           /\ UNCHANGED <<channels, tasks, accepted>>
     IN IF channelName \notin DOMAIN channels
        THEN reject(<<"no such channel">>)
        ELSE IF Locked(channels[channelName])
        THEN reject(<<"channel locked">>)
        ELSE IF ~v.valid
        THEN reject(v.message)
        ELSE LET r == StoreApply(channels[channelName].state.sections,
                                 type, payload)
             IN IF ~r.ok
                THEN reject(<<r.error>>)
                ELSE /\ channels' = [channels EXCEPT
                                       ![channelName].state.sections = r.sections]
                     /\ tasks' = Append(tasks,
                                        [channel |-> channelName, type |-> type,
                                         payload |-> payload, pc |-> "persist",
                                         failed |-> FALSE])
                     /\ accepted' = Append(accepted,
                                           [channel |-> channelName,
                                            type |-> type, payload |-> payload])
                     /\ last' = [op |-> "accept", channel |-> channelName,
                                 type |-> type, payload |-> payload,
                                 ok |-> TRUE, error |-> <<>>]
  /\ UNCHANGED <<clientVars, otherVars, now, socketLog, nextSocket, emitMode, db>>

\* the write of an accepted event completes, whenever it does: the helper
\* returns or throws; a failure is noted and the event goes on
PersistTask(i, resolves) ==
  /\ i \in 1..Len(tasks)
  /\ tasks[i].pc = "persist"
  /\ LET t == tasks[i]
         r == Persisted(t.channel, t.type, t.payload, resolves)
     IN /\ db' = r.db
        /\ tasks' = [tasks EXCEPT ![i].pc = "broadcast", ![i].failed = r.threw]
        /\ last' = [op |-> "persistTask", channel |-> t.channel,
                    type |-> t.type, payload |-> t.payload,
                    resolves |-> resolves, threw |-> r.threw]
  /\ UNCHANGED <<clientVars, otherVars, now, channels, socketLog, nextSocket, emitMode,
                 accepted>>

\* the oldest event of a channel, once its write is over, is broadcast to
\* the other users and the caller is told how it went
BroadcastTask(i) ==
  /\ i \in 1..Len(tasks)
  /\ tasks[i].pc = "broadcast"
  /\ \A j \in 1..(i - 1) : tasks[j].channel # tasks[i].channel
  /\ LET t == tasks[i]
     IN /\ socketLog' = Emits(channels[t.channel], t.type, t.payload,
                              t.payload.userUuid)
        /\ last' = [op |-> "broadcastTask", channel |-> t.channel,
                    type |-> t.type, payload |-> t.payload,
                    failed |-> t.failed]
  /\ tasks' = SubSeq(tasks, 1, i - 1) \o SubSeq(tasks, i + 1, Len(tasks))
  /\ UNCHANGED <<clientVars, otherVars, now, channels, nextSocket, emitMode, db, accepted>>

(***************************************************************************)
(* retryWithBackoff(fn, maxRetries, baseDelay), one step for each await.   *)
(***************************************************************************)
Pow2One(n) == 1

\* Math.pow(2, i)
RECURSIVE Pow2(_)
Pow2(n) == IF n = 0 THEN 1 ELSE 2 * Pow2(n - 1)

\* the function returns value, or throws it
Settled(kind, value) == <<[kind |-> kind, value |-> value]>>

\* the call itself: the loop is entered with i = 0 and calls fn, or is not
\* entered at all and the function returns undefined
retryWithBackoff(maxRetries, baseDelay) ==
  /\ retry.pc \in {"idle", "done"}
  /\ retry' = [pc |-> IF 0 < maxRetries THEN "call" ELSE "done",
               maxRetries |-> maxRetries, baseDelay |-> baseDelay, i |-> 0,
               calls |-> <<>>, waits |-> <<>>,
               settled |-> IF 0 < maxRetries THEN <<>>
                           ELSE Settled("returned", Undefined)]
  /\ last' = [op |-> "retryWithBackoff", maxRetries |-> maxRetries,
              baseDelay |-> baseDelay]
  /\ UNCHANGED <<clientVars, now, serverVars, delivered>>

\* await fn() is over: fn has resolved with value, which is returned, or it
\* has rejected with value, which is thrown on the last round and followed
\* by wait(baseDelay * Math.pow(2, i)) on the others
FnSettles(ok, value) ==
  /\ retry.pc = "call"
  /\ retry' =
       LET called == [retry EXCEPT !.calls = Append(@, [ok |-> ok, value |-> value])]
       IN IF ok
          THEN [called EXCEPT !.pc = "done",
                              !.settled = Settled("returned", value)]
          ELSE IF retry.i = retry.maxRetries - 1
          THEN [called EXCEPT !.pc = "done",
                              !.settled = Settled("threw", value)]
          ELSE [called EXCEPT !.pc = "wait",
                              !.waits = Append(@, retry.baseDelay * Pow2(retry.i))]
  /\ last' = [op |-> "fn", ok |-> ok, value |-> value]
  /\ UNCHANGED <<clientVars, now, serverVars, delivered>>

\* the timer of wait has run: i++, and fn is called again while
\* i < maxRetries
WaitOver ==
  /\ retry.pc = "wait"
  /\ retry' = IF retry.i + 1 < retry.maxRetries
              THEN [retry EXCEPT !.i = @ + 1, !.pc = "call"]
              ELSE [retry EXCEPT !.i = @ + 1, !.pc = "done",
                                 !.settled = Settled("returned", Undefined)]
  /\ last' = [op |-> "wait"]
  /\ UNCHANGED <<clientVars, now, serverVars, delivered>>

(***************************************************************************)
(* The events other users send.                                            *)
(***************************************************************************)
Ev(id, data, ts) ==
  [id |-> id, userUuid |-> RemoteUser, data |-> data, timestamp |-> ts]
EvNoId(data, ts) == [userUuid |-> RemoteUser, data |-> data, timestamp |-> ts]
EvNoData(id, ts) == [id |-> id, userUuid |-> RemoteUser, timestamp |-> ts]
EvBare(ts) == [userUuid |-> RemoteUser, timestamp |-> ts]

NameOnly == [name |-> NameA]

Stamps == {1, 2}
EventIds == {"l1", "r1"}

AddData == { [name |-> <<Space>>, sectionId |-> "l1", order |-> 0] }

UpdateData ==
  { [name |-> NameA], [name |-> <<Space>>], [name |-> <<>>],
    [name |-> NameA, order |-> 2], [order |-> 2] }

AddEvents == {Ev("r1", d, 1) : d \in AddData} \cup {EvNoId(NameOnly, 1)}

UpdateEvents ==
  {Ev("l1", d, 1) : d \in UpdateData}
    \cup {Ev("", NameOnly, 1), EvNoId(NameOnly, 1), EvNoData("l1", 1)}

\* add events that differ in their timestamp only, or in nothing
ReplayEvents ==
  {Ev(id, [name |-> NameA, sectionId |-> Null, order |-> 0], ts) :
     id \in EventIds, ts \in Stamps}

RemoveEvents ==
  {EvNoData(id, 1) : id \in EventIds \cup {""}} \cup {EvBare(1)}

\* what the clients send to the server
EventTypes == {"add-section", "update-section", "remove-section"}
Operations == {"add", "update", "remove"}
Payload(id, userUuid, data, ts) ==
  [id |-> id, userUuid |-> userUuid, data |-> data, timestamp |-> ts]
ServerPayloads ==
  { Payload("r1", TestUser, NameOnly, 7),
    Payload("r1", OtherUser, NameOnly, 0),
    [userUuid |-> TestUser, data |-> NameOnly, timestamp |-> 7] }

(***************************************************************************)
(* Specifications.                                                         *)
(***************************************************************************)
\* the client store under every operation and every handler
Next ==
  \/ \E name \in Names, sectionId \in {Null} \cup StoreIds :
       /\ Len(sections) < MaxSections
       /\ Len(emitted) < MaxEmits
       /\ addSection(name, sectionId)
  \/ \E id \in EventIds, name \in {<<Space>>, NameA} :
       /\ Len(emitted) < MaxEmits
       /\ updateSection(id, name)
  \/ \E id \in EventIds :
       /\ Len(emitted) < MaxEmits
       /\ removeSection(id)
  \/ \E ev \in AddEvents :
       /\ Len(sections) < MaxSections
       /\ handleAddSection(ev)
  \/ \E ev \in UpdateEvents : handleUpdateSection(ev)
  \/ \E ev \in RemoveEvents : handleRemoveSection(ev)
  \/ mockClear

Spec == Init /\ [][Next]_vars

\* the dedup set: add events and their replays, removes, and the expiry timers
NextDedup ==
  \/ \E ev \in ReplayEvents :
       /\ Len(sections) < MaxSections
       /\ handleAddSection(ev)
  \/ \E ev \in RemoveEvents : handleRemoveSection(ev)
  \/ \E id \in EventIds :
       /\ Len(emitted) < MaxEmits
       /\ removeSection(id)
  \/ \E k \in DOMAIN timers : TimerFire(k)
  \/ Tick
  \/ mockClear

SpecDedup == Init /\ [][NextDedup]_vars

\* the keys of the add events that arrive
ReplayKeys == {EventKey(ev.id, ev.timestamp) : ev \in ReplayEvents}

\* the same, with time passing and every timer whose delay has elapsed
\* running its callback
SpecDedupLive ==
  /\ Init
  /\ [][NextDedup]_vars
  /\ WF_vars(Tick)
  /\ \A k \in ReplayKeys : WF_vars(TimerFire(k))

\* only addSection is ever called
NextAdd ==
  \E name \in {NameA, <<Space, "b", Space>>}, sectionId \in {Null} \cup StoreIds :
    /\ Len(sections) < MaxTree
    /\ addSection(name, sectionId)

SpecAdd == Init /\ [][NextAdd]_vars

\* the tree of sections under local adds and local or remote removes
NextTree ==
  \/ \E sectionId \in {Null} \cup StoreIds :
       /\ Len(sections) < MaxTree
       /\ Len(emitted) < MaxEmits
       /\ addSection(NameA, sectionId)
  \/ \E id \in Range(LocalIds) :
       /\ Len(emitted) < MaxEmits
       /\ removeSection(id)
  \/ \E id \in Range(LocalIds) : handleRemoveSection(EvNoData(id, 1))
  \/ mockClear

SpecTree == Init /\ [][NextTree]_vars

\* the server: users join and leave the channel, events are validated and
\* broadcast
NextServer ==
  \/ \E c \in ChannelNames, u \in Users : Join(c, u)
  \/ \E c \in ChannelNames, u \in Users : Leave(c, u)
  \/ \E payload \in ServerPayloads, operation \in Operations :
       Validate(payload, operation)
  \/ \E c \in ChannelNames, type \in {"add-section"}, payload \in ServerPayloads,
        excludeUuid \in Users \cup {Null} :
       /\ \A k \in DOMAIN socketLog : Len(socketLog[k]) < MaxLog
       /\ broadcastToChannel(c, type, payload, excludeUuid)

SpecServer == Init /\ [][NextServer]_vars

\* what the helpers are given
DbPayloads ==
  {Payload(id, TestUser, d, 7) :
     id \in Range(PeerIds), d \in {NameOnly, [name |-> NameB, order |-> 1]}}

\* the helpers called for the sections of two channels, the model resolving
\* or rejecting
NextDb ==
  \E c \in {TestChannel, OtherChannel}, type \in EventTypes,
     payload \in DbPayloads, resolves \in BOOLEAN :
    /\ type = "add-section" => Len(db) < MaxDocs
    /\ type = "remove-section" => payload.data = NameOnly
    /\ CallHelper(c, type, payload, resolves)

SpecDb == Init /\ [][NextDb]_vars

\* the events the users of the channel send to the server, each with the
\* client timestamp ts: an add, a rename, a rename to a blank name, an update
\* without data
Senders == {TestUser, OtherUser}
PipeEvents(ts) ==
  UNION {{ [type |-> "add-section", payload |-> Payload("r1", u, NameOnly, ts)],
           [type |-> "update-section",
            payload |-> Payload("r1", u, [name |-> NameB], ts)],
           [type |-> "update-section",
            payload |-> Payload("r1", u, [name |-> <<Space>>], ts)],
           [type |-> "update-section",
            payload |-> [id |-> "r1", userUuid |-> u, timestamp |-> ts]] }
         : u \in Senders}
\* and a remove, its data null
RemovePayload(u, ts) == Payload("r1", u, Null, ts)

\* the server: users join, events arrive from them and go down the path,
\* the writes completing in any order and failing at will
NextPipe ==
  \/ \E u \in Users : Join(TestChannel, u)
  \/ \E c \in ChannelNames, e \in PipeEvents(Len(accepted) + 1) :
       /\ Len(accepted) < MaxEvents
       /\ Accept(c, e.type, e.payload)
  \/ \E c \in ChannelNames, u \in Senders :
       /\ Len(accepted) < MaxEvents
       /\ Accept(c, "remove-section", RemovePayload(u, Len(accepted) + 1))
  \/ \E i \in 1..Len(tasks), resolves \in BOOLEAN : PersistTask(i, resolves)
  \/ \E i \in 1..Len(tasks) : BroadcastTask(i)

SpecPipe == Init /\ [][NextPipe]_vars

\* the server with the channel being locked and unlocked while events arrive
NextLock ==
  \/ \E u \in Users : Join(TestChannel, u)
  \/ \E locked \in BOOLEAN : SetLocked(TestChannel, locked)
  \/ \E e \in PipeEvents(Len(accepted) + 1) :
       /\ Len(accepted) < MaxEvents
       /\ Accept(TestChannel, e.type, e.payload)
  \/ \E i \in 1..Len(tasks) : PersistTask(i, TRUE)
  \/ \E i \in 1..Len(tasks) : BroadcastTask(i)

SpecLock == Init /\ [][NextLock]_vars

\* the next event of the other client reaches this client as the message
\* broadcastToChannel makes of it, and the handler of its type runs
Receive ==
  /\ delivered.here < Len(peer.emitted)
  /\ LET sent == peer.emitted[delivered.here + 1]
         message == Message(sent.type, sent.payload, now)
         after == Handled([sections |-> sections,
                           processedEvents |-> processedEvents,
                           timers |-> timers], message)
     IN /\ sections' = after.sections
        /\ processedEvents' = after.processedEvents
        /\ timers' = after.timers
        /\ last' = [op |-> "receive", type |-> sent.type, id |-> message.id]
  /\ delivered' = [delivered EXCEPT !.here = @ + 1]
  /\ UNCHANGED <<emitted, nextId, peer, now, serverVars, retry>>

\* the same on the client of the other user
peerReceive ==
  /\ delivered.there < Len(emitted)
  /\ LET sent == emitted[delivered.there + 1]
         message == Message(sent.type, sent.payload, now)
         after == Handled([sections |-> peer.sections,
                           processedEvents |-> peer.processedEvents,
                           timers |-> peer.timers], message)
     IN /\ peer' = [peer EXCEPT !.sections = after.sections,
                                !.processedEvents = after.processedEvents,
                                !.timers = after.timers]
        /\ last' = [op |-> "peerReceive", type |-> sent.type, id |-> message.id]
  /\ delivered' = [delivered EXCEPT !.there = @ + 1]
  /\ UNCHANGED <<sections, processedEvents, timers, emitted, nextId, now,
                 serverVars, retry>>

\* the ids held by the store of the other client
PeerStoreIds == {peer.sections[i].id : i \in 1..Len(peer.sections)}

\* two clients of one channel add, rename and remove sections, and each is
\* sent what the other has emitted, in the order of emission
NextConverge ==
  \/ /\ nextId = 1
     /\ Len(emitted) < MaxOps
     /\ addSection(NameA, Null)
  \/ \E id \in StoreIds, name \in {NameA, NameB} :
       /\ Len(emitted) < MaxOps
       /\ updateSection(id, name)
  \/ \E id \in StoreIds :
       /\ Len(emitted) < MaxOps
       /\ removeSection(id)
  \/ /\ peer.nextId = 1
     /\ Len(peer.emitted) < MaxOps
     /\ peerAddSection(NameA, Null)
  \/ \E id \in PeerStoreIds, name \in {NameA, NameB} :
       /\ Len(peer.emitted) < MaxOps
       /\ peerUpdateSection(id, name)
  \/ \E id \in PeerStoreIds :
       /\ Len(peer.emitted) < MaxOps
       /\ peerRemoveSection(id)
  \/ Receive
  \/ peerReceive

SpecConverge == Init /\ [][NextConverge]_vars

\* a list of several sections under local adds, renames and removes
NextFrame ==
  \/ \E sectionId \in {Null} \cup StoreIds :
       /\ Len(sections) < MaxTree - 1
       /\ Len(emitted) < MaxEmits
       /\ addSection(NameA, sectionId)
  \/ \E id \in Range(LocalIds) :
       /\ Len(emitted) < MaxEmits
       /\ updateSection(id, <<Space>> \o NameB)
  \/ \E id \in Range(LocalIds) :
       /\ Len(emitted) < MaxEmits
       /\ removeSection(id)
  \/ mockClear

SpecFrame == Init /\ [][NextFrame]_vars

\* sections with a full data structure: name, parent reference, order and a
\* field of the client's own, under one key or another
CreatePayloads ==
  {Payload(id, TestUser, d, 1234567890) :
     id \in Range(PeerIds),
     d \in {[name |-> NameA, sectionId |-> Null, order |-> 5,
             customField |-> "custom-value"],
            [name |-> NameA, sectionId |-> Null, order |-> 5,
             color |-> "#123456"]}}

\* the helpers called with such sections
NextCreate ==
  \E c \in {TestChannel, OtherChannel}, type \in EventTypes,
     payload \in CreatePayloads, resolves \in BOOLEAN :
    /\ type = "add-section" => Len(db) < MaxDocs
    /\ CallHelper(c, type, payload, resolves)

SpecCreate == Init /\ [][NextCreate]_vars

\* the server with two channels: users join either, events are broadcast in
\* either and in channels the registry does not have
NextChannels ==
  \/ OpenChannel(OtherChannel)
  \/ \E c \in {TestChannel, OtherChannel}, u \in {TestUser, OtherUser} :
       Join(c, u)
  \/ \E c \in ChannelNames \cup {OtherChannel},
        payload \in {Payload("r1", u, NameOnly, 7) : u \in {TestUser, OtherUser}},
        excludeUuid \in {TestUser, Null} :
       /\ \A k \in DOMAIN socketLog : Len(socketLog[k]) <= MaxLog
       /\ broadcastToChannel(c, "add-section", payload, excludeUuid)

SpecChannels == Init /\ [][NextChannels]_vars

\* what fn resolves with and what it rejects with
FnValues == {"v1", "v2"}
FnErrors == {"e1", "e2"}
BaseDelays == {0, 100, 300}

\* retryWithBackoff called over and over, fn resolving or rejecting at will
NextRetry ==
  \/ \E maxRetries \in 0..MaxTries, baseDelay \in BaseDelays :
       retryWithBackoff(maxRetries, baseDelay)
  \/ \E value \in FnValues : FnSettles(TRUE, value)
  \/ \E value \in FnErrors : FnSettles(FALSE, value)
  \/ WaitOver

\* the same, every call of fn settling and every timer running
SpecRetry ==
  /\ Init
  /\ [][NextRetry]_vars
  /\ WF_vars(\E value \in FnValues \cup FnErrors, ok \in BOOLEAN :
               FnSettles(ok, value))
  /\ WF_vars(WaitOver)

EmitModes == {"ok", "throws", "drops"}

\* the server with connections whose emit may fail
NextFlaky ==
  \/ \E u \in Users : Join(TestChannel, u)
  \/ \E k \in Range(SocketIds), mode \in EmitModes : setEmitMode(k, mode)
  \/ \E payload \in ServerPayloads, excludeUuid \in Users \cup {Null} :
       /\ \A k \in DOMAIN socketLog : Len(socketLog[k]) < MaxLog
       /\ broadcastToChannel(TestChannel, "add-section", payload, excludeUuid)

SpecFlaky == Init /\ [][NextFlaky]_vars

\* the ids the uuid generator has yielded so far
GeneratedIds == {LocalIds[k] : k \in 1..(nextId - 1)}

\* local adds and removes together with add events, fresh or replayed, for
\* ids of other clients and for ids created here
NextUnique ==
  \/ /\ Len(sections) < MaxSections
     /\ Len(emitted) < MaxEmits
     /\ addSection(NameA, Null)
  \/ \E ev \in ReplayEvents :
       /\ ev.id \in RemoteIds \cup GeneratedIds
       /\ Len(sections) < MaxSections
       /\ handleAddSection(ev)
  \/ \E id \in EventIds :
       /\ Len(emitted) < MaxEmits
       /\ removeSection(id)
  \/ \E k \in DOMAIN timers : TimerFire(k)
  \/ Tick
  \/ mockClear

SpecUnique == Init /\ [][NextUnique]_vars

\* the add-section payloads a client has sent
Sent(log) == {log[k].payload : k \in {n \in 1..Len(log) : log[n].type = "add-section"}}

\* two clients add sections, each receives what the other has sent, at any
\* time and possibly more than once
NextPeers ==
  \/ \E sectionId \in {Null} \cup StoreIds :
       /\ nextId <= MaxSections
       /\ addSection(NameA, sectionId)
  \/ \E sectionId \in {Null} \cup {peer.sections[i].id : i \in 1..Len(peer.sections)} :
       /\ peer.nextId <= MaxSections
       /\ peerAddSection(NameA, sectionId)
  \/ \E ev \in Sent(peer.emitted) : handleAddSection(ev)
  \/ \E ev \in Sent(emitted) : peerHandleAddSection(ev)

SpecPeers == Init /\ [][NextPeers]_vars

(***************************************************************************)
(* Properties.                                                             *)
(***************************************************************************)
\* the positions of the store whose section is in the sibling group of position i
Group(secs, i) ==
  {j \in 1..Len(secs) : ParentKey(secs[j].data) = ParentKey(secs[i].data)}

\* C1: after a local removeSection(id) that found the section, or a remote
\* handleRemoveSection for id, no section of the store descends, directly or
\* transitively, from id.
C1_RemoveCascades ==
  [][ LET removed ==
            IF last'.op = "removeSection" /\ last'.ret THEN {last'.id}
            ELSE IF last'.op = "handleRemoveSection" /\ ~Falsy(EvId(last'.ev))
                 THEN {EvId(last'.ev)}
                 ELSE {}
      IN \A id \in removed :
           \A i \in 1..Len(sections') : ~DescendsFrom(sections', i, id) ]_vars

\* C2: when only addSection is called, the k-th section admitted into a sibling
\* group carries order k-1, whatever was added to other groups in between.
C2_AdmissionOrder ==
  \A i \in 1..Len(sections) :
    sections[i].data.order =
      Cardinality({j \in Group(sections, i) : j < i})

\* two sibling groups, each with a second member
C2_Witness ==
  \E i, j \in 1..Len(sections) :
    /\ ParentKey(sections[i].data) = Null
    /\ ParentKey(sections[j].data) # Null
    /\ sections[i].data.order = 1
    /\ sections[j].data.order = 1

\* C3: after any adds and removes the orders of every sibling group are
\* pairwise distinct, exactly 0..n-1, and increase along the list.
C3_DenseOrders ==
  \A i \in 1..Len(sections) :
    LET G == Group(sections, i)
    IN /\ {sections[j].data.order : j \in G} = 0..(Cardinality(G) - 1)
       /\ \A j, k \in G : j < k => sections[j].data.order < sections[k].data.order

\* the key under which handleAddSection files the event
KeyOf(ev) == EventKey(EvId(ev), ev.timestamp)

\* C4: handling an add event whose key is still in processedEvents leaves the
\* sections as they are, emits nothing, records nothing and starts no timer.
C4_ReplayIsNoOp ==
  [][ (last'.op = "handleAddSection" /\ KeyOf(last'.ev) \in processedEvents)
        => /\ sections' = sections
           /\ emitted' = emitted
           /\ processedEvents' = processedEvents
           /\ timers' = timers ]_vars

\* the event was handled again after its timer had started to run down
C4_Witness ==
  /\ last.op = "handleAddSection"
  /\ KeyOf(last.ev) \in DOMAIN timers
  /\ timers[KeyOf(last.ev)] < TTL
  /\ EvId(last.ev) \in StoreIds

\* C6: handleUpdateSection returns false on an event whose name is empty or
\* whitespace-only, and changes neither the store nor anything else.
C6_RejectsBlankName ==
  [][ (/\ last'.op = "handleUpdateSection"
       /\ HasData(last'.ev)
       /\ HasName(last'.ev.data)
       /\ IsBlank(last'.ev.data.name))
        => /\ last'.ret = FALSE
           /\ sections' = sections
           /\ UNCHANGED <<processedEvents, timers, emitted, now, nextId>> ]_vars

\* a whitespace-only rename of a section that is in the store was refused
C6_Witness ==
  /\ last.op = "handleUpdateSection"
  /\ HasData(last.ev)
  /\ HasName(last.ev.data)
  /\ last.ev.data.name = <<Space>>
  /\ EvId(last.ev) \in StoreIds
  /\ last.ret = FALSE

\* C7: no section of the store and no emitted add-section / update-section
\* payload has a name that is empty after trimming.
C7_NoBlankName ==
  /\ \A i \in 1..Len(sections) :
       HasName(sections[i].data) => ~IsBlank(sections[i].data.name)
  /\ \A k \in 1..Len(emitted) :
       emitted[k].type \in {"add-section", "update-section"}
         => ~IsBlank(emitted[k].payload.data.name)

\* C9: a successful update leaves the target with the old data overridden by
\* exactly the fields of the update; a local rename changes the name only.
C9_MergeKeepsFields ==
  [][ /\ (last'.op = "handleUpdateSection" /\ last'.ret)
          => LET i == IndexOf(last'.ev.id)
                 old == sections[i].data
                 new == sections'[i].data
                 d == last'.ev.data
             IN /\ DOMAIN new = DOMAIN old \cup DOMAIN d
                /\ \A k \in DOMAIN d : new[k] = d[k]
                /\ \A k \in DOMAIN old \ DOMAIN d : new[k] = old[k]
      /\ (last'.op = "updateSection" /\ last'.ret)
          => LET i == IndexOf(last'.id)
                 old == sections[i].data
                 new == sections'[i].data
             IN /\ DOMAIN new = DOMAIN old \cup {"name"}
                /\ new.name = Trim(last'.name)
                /\ \A k \in DOMAIN old \ {"name"} : new[k] = old[k] ]_vars

\* a name-only update was applied to a section that has an order and a parent
C9_Witness ==
  /\ last.op = "handleUpdateSection"
  /\ last.ret
  /\ DOMAIN last.ev.data = {"name"}
  /\ LET data == sections[IndexOf(last.ev.id)].data
     IN /\ {"order", "sectionId"} \subseteq DOMAIN data
        /\ data.name = last.ev.data.name
        /\ data.order = 1

\* C10: an update or a remove of an id that is not in the store returns
\* false, leaves the sections as they are and emits nothing.
C10_AbsentTargetFails ==
  [][ /\ (last'.op \in {"updateSection", "removeSection"}
            /\ last'.id \notin StoreIds)
          => last'.ret = FALSE /\ sections' = sections /\ emitted' = emitted
      /\ (last'.op \in {"handleUpdateSection", "handleRemoveSection"}
            /\ EvId(last'.ev) \notin StoreIds)
          => last'.ret = FALSE /\ sections' = sections /\ emitted' = emitted
    ]_vars

\* a well-formed update arrived for a section that was created here and has
\* been removed since
C10_Witness ==
  /\ last.op = "handleUpdateSection"
  /\ last.ret = FALSE
  /\ HasData(last.ev)
  /\ HasName(last.ev.data)
  /\ ~IsBlank(last.ev.data.name)
  /\ EvId(last.ev) = LocalIds[1]
  /\ nextId > 1
  /\ LocalIds[1] \notin StoreIds

\* C5: a broadcast appends the message once to the log of the socket of every
\* connected user of the channel other than excludeUuid, and appends nothing
\* to the log of the socket of excludeUuid.
C5_BroadcastExcludesSender ==
  [][ (last'.op = "broadcastToChannel" /\ last'.channel \in DOMAIN channels)
        => LET channel == channels[last'.channel]
           IN \A u \in DOMAIN channel.sockets :
                channel.sockets[u] # Null
                  => LET before == socketLog[channel.sockets[u]]
                         after == socketLog'[channel.sockets[u]]
                     IN IF u = last'.excludeUuid
                        THEN after = before
                        ELSE /\ Len(after) = Len(before) + 1
                             /\ SubSeq(after, 1, Len(before)) = before
                             /\ after[Len(after)].type = last'.type
                             /\ after[Len(after)].id = EvId(last'.payload)
                             /\ after[Len(after)].userUuid = last'.payload.userUuid
    ]_vars

\* an event of a connected user was broadcast: the two other connected users
\* have it, the originator has nothing
C5_Witness ==
  /\ last.op = "broadcastToChannel"
  /\ last.channel \in DOMAIN channels
  /\ LET sockets == channels[last.channel].sockets
     IN /\ DOMAIN sockets = Users
        /\ \A u \in Users : sockets[u] # Null
        /\ last.excludeUuid = last.payload.userUuid
        /\ \A u \in Users :
             Len(socketLog[sockets[u]]) = IF u = last.excludeUuid THEN 0 ELSE 1

\* C8: an add, update or remove event without an id, or with an empty one, is
\* refused: validateEntity answers invalid with 'missing id' for every
\* operation, the handlers leave the sections as they are, and
\* handleRemoveSection returns false.
C8_MissingIdRejected ==
  [][ /\ \A payload \in ServerPayloads, operation \in Operations :
           Falsy(EvId(payload))
             => LET v == validateEntity(payload, "sections", operation)
                IN ~v.valid /\ v.message[Len(v.message)] = "missing id"
      /\ (/\ last'.op \in {"handleAddSection", "handleUpdateSection",
                           "handleRemoveSection"}
          /\ Falsy(EvId(last'.ev)))
           => /\ sections' = sections
              /\ last'.op = "handleRemoveSection" => last'.ret = FALSE ]_vars

\* C11: no two sections of the store share an id, and an add event whose id
\* is in the store already, whatever its timestamp, leaves the sections as
\* they are: no second section, the existing one untouched.
C11_UniqueIds ==
  [][ /\ \A i, j \in 1..Len(sections') :
           sections'[i].id = sections'[j].id => i = j
      /\ (last'.op = "handleAddSection" /\ EvId(last'.ev) \in StoreIds)
           => sections' = sections ]_vars

\* an add event for a section created here arrived under a second timestamp,
\* its first fingerprint still on record: the local section is there alone
C11_Witness ==
  /\ last.op = "handleAddSection"
  /\ last.ev.timestamp = 2
  /\ EventKey(last.ev.id, 1) \in processedEvents
  /\ KeyOf(last.ev) \in processedEvents
  /\ Cardinality({i \in 1..Len(sections) : sections[i].id = last.ev.id}) = 1
  /\ sections[IndexOf(last.ev.id)].userUuid = LocalUser

\* C12: once two sections that different clients added to the same sibling
\* group are in both stores, they carry different orders in each store.
C12_ConcurrentAddsDistinctOrders ==
  \A secs \in {sections, peer.sections} :
    \A i, j \in 1..Len(secs) :
      (/\ secs[i].userUuid # secs[j].userUuid
       /\ ParentKey(secs[i].data) = ParentKey(secs[j].data)
       /\ {secs[i].id, secs[j].id} \subseteq StoreIds
       /\ {secs[i].id, secs[j].id}
            \subseteq {peer.sections[k].id : k \in 1..Len(peer.sections)})
        => secs[i].data.order # secs[j].data.order

\* C13: the parent reference of every section is null or the id of a section
\* of the same store, and no section is reached by following the parent
\* references from itself.
C13_ParentsPresentNoCycle ==
  \A i \in 1..Len(sections) :
    /\ ParentKey(sections[i].data) \in {Null} \cup StoreIds
    /\ ~DescendsFrom(sections, i, sections[i].id)

\* C19: a key recorded in processedEvents is removed again by its timer, and
\* while it is recorded the time left on its timer never grows, whatever
\* replays arrive; so the set drains when no new events come.
C19_KeysExpire ==
  /\ \A k \in ReplayKeys : (k \in processedEvents) ~> (k \notin processedEvents)
  /\ [][ \A k \in DOMAIN timers \cap DOMAIN timers' :
            (k \in processedEvents /\ k \in processedEvents')
              => timers'[k] <= timers[k] ]_vars

\* the last timer has run: two events were handled and no key is left
C19_Witness ==
  /\ last.op = "timer"
  /\ processedEvents = {}
  /\ timers = <<>>
  /\ Len(sections) = 2

\* C15: in one broadcast every connected user other than excludeUuid whose
\* emit works gets the message once, whatever happens on the sockets of the
\* others, and a socket whose emit fails gets nothing: no second attempt.
C15_FailureDoesNotBlockOthers ==
  [][ (last'.op = "broadcastToChannel" /\ last'.channel \in DOMAIN channels)
        => LET channel == channels[last'.channel]
           IN \A u \in DOMAIN channel.sockets :
                (u # last'.excludeUuid /\ channel.sockets[u] # Null)
                  => LET before == socketLog[channel.sockets[u]]
                         after == socketLog'[channel.sockets[u]]
                     IN IF emitMode[channel.sockets[u]] = "ok"
                        THEN /\ Len(after) = Len(before) + 1
                             /\ after[Len(after)].id = EvId(last'.payload)
                        ELSE after = before ]_vars

\* the documents that are not the record of (channel, id)
Others(docs, channelName, id) ==
  SelectSeq(docs, LAMBDA d : ~(d.id = id /\ d.channel = channelName))

\* C20: an update or a delete for id X in channel C leaves every document
\* with another id or another channel as it is and where it is; the update
\* writes the data of the event to a record of (C, X) and the delete removes
\* one, when there is one.
C20_KeyedByChannelAndId ==
  [][ (last'.op = "persist" /\ last'.type # "add-section")
        => LET c == last'.channel
               id == last'.payload.id
               mine(docs) == {i \in 1..Len(docs) :
                                docs[i].id = id /\ docs[i].channel = c}
           IN /\ Others(db', c, id) = Others(db, c, id)
              /\ (last'.resolves /\ mine(db) # {})
                   => IF last'.type = "update-section"
                      THEN /\ mine(db') = mine(db)
                           /\ \E i \in mine(db') : db'[i].data = last'.payload.data
                      ELSE Cardinality(mine(db')) = Cardinality(mine(db)) - 1
              /\ (~last'.resolves \/ mine(db) = {}) => db' = db ]_vars

\* a record was updated while the other channel holds a record with the same
\* id, created earlier and with other data
C20_Witness ==
  /\ last.op = "persist"
  /\ last.type = "update-section"
  /\ last.resolves
  /\ \E i, j \in 1..Len(db) :
       /\ i < j
       /\ db[i].id = last.payload.id
       /\ db[j].id = last.payload.id
       /\ db[i].channel # last.channel
       /\ db[j].channel = last.channel
       /\ db[j].data = last.payload.data
       /\ db[i].data # last.payload.data
       /\ "color" \in DOMAIN db[i].data

\* an update whose data is absent or whose name is blank
BadUpdate(payload) ==
  IF HasData(payload)
  THEN HasName(payload.data) /\ IsBlank(payload.data.name)
  ELSE TRUE

\* C14: an update event without data, or with a name that trims to empty, is
\* invalid for validateEntity and is turned away on arrival: the state of the
\* channel, the documents and the socket logs stay as they are, and no write
\* and no broadcast is ever made for such an event.
C14_BadUpdateRejected ==
  [][ /\ (/\ last'.op = "accept"
          /\ last'.channel \in DOMAIN channels
          /\ last'.type = "update-section"
          /\ BadUpdate(last'.payload))
           => /\ ~validateEntity(last'.payload, "sections", "update").valid
              /\ ~last'.ok
              /\ UNCHANGED <<channels, tasks, accepted, db, socketLog>>
      /\ (last'.op \in {"persistTask", "broadcastTask"}
            /\ last'.type = "update-section")
           => ~BadUpdate(last'.payload) ]_vars

\* the place of a delivered message in the order of acceptance
AcceptedAt(message) ==
  CHOOSE n \in 1..Len(accepted) :
    accepted[n].payload.timestamp = message.timestamp

RecordsOf(docs, channelName, id) ==
  {i \in 1..Len(docs) : docs[i].id = id /\ docs[i].channel = channelName}

\* C21: a create for an id that has a record in the channel already throws
\* and leaves the documents as they are, so that no (channel, id) ever has
\* two records; a delete for an id without a record returns normally and
\* changes nothing.
C21_CreateConflictDeleteNoOp ==
  [][ last'.op = "persist"
        => LET c == last'.channel
               id == last'.payload.id
           IN /\ (last'.type = "add-section" /\ RecordsOf(db, c, id) # {})
                   => last'.threw /\ db' = db
              /\ \A d \in 1..Len(db') :
                   Cardinality(RecordsOf(db', db'[d].channel, db'[d].id)) = 1
              /\ (/\ last'.type = "remove-section"
                  /\ last'.resolves
                  /\ RecordsOf(db, c, id) = {})
                   => ~last'.threw /\ db' = db ]_vars

C23_OwnerIsLastMutator ==
  [][ /\ (last'.op = "handleUpdateSection" /\ last'.ret)
           => sections'[IndexOf(last'.ev.id)].userUuid = last'.ev.userUuid
      /\ (last'.op = "updateSection" /\ last'.ret)
           => sections'[IndexOf(last'.id)].userUuid = LocalUser ]_vars

\* the sections of a store by id, each with its data
DataById(secs) == {<<secs[i].id, secs[i].data>> : i \in 1..Len(secs)}

\* C24: once each client has handled every event the other one has emitted,
\* the two stores hold the same ids with the same data for each id, whatever
\* the order in which the clients added, renamed and removed.
C24_StoresConverge ==
  (delivered.here = Len(peer.emitted) /\ delivered.there = Len(emitted))
    => DataById(sections) = DataById(peer.sections)

\* C25: when an add event is handled again while its key is in
\* processedEvents and the section it had added has been removed since, the
\* section is not put back: the sections stay as they are, without that id.
C25_ReplayAfterRemoveStaysOut ==
  [][ (/\ last'.op = "handleAddSection"
       /\ KeyOf(last'.ev) \in processedEvents
       /\ EvId(last'.ev) \notin StoreIds)
        => /\ sections' = sections
           /\ \A i \in 1..Len(sections') : sections'[i].id # EvId(last'.ev) ]_vars

\* the add event came again after its section was removed, its timer run
\* down but not yet fired: the store is empty, the key on record
C25_Witness ==
  /\ last.op = "handleAddSection"
  /\ KeyOf(last.ev) \in processedEvents
  /\ KeyOf(last.ev) \in DOMAIN timers
  /\ timers[KeyOf(last.ev)] < TTL
  /\ sections = <<>>

\* C26: updateSection(id, name) that finds its section gives that section
\* the trimmed name and nothing else: every other section, and every other
\* field of the target, is as before and where it was; removeSection(id)
\* that finds its section takes exactly that section out of the list, the
\* others staying in their order.
C26_OnlyTargetTouched ==
  [][ /\ (last'.op = "updateSection" /\ last'.ret)
           => /\ Len(sections') = Len(sections)
              /\ \A i \in 1..Len(sections) :
                   IF sections[i].id = last'.id
                   THEN /\ sections'[i].id = sections[i].id
                        /\ sections'[i].userUuid = sections[i].userUuid
                        /\ sections'[i].data.name = Trim(last'.name)
                        /\ DOMAIN sections'[i].data = DOMAIN sections[i].data
                        /\ \A k \in DOMAIN sections[i].data \ {"name"} :
                             sections'[i].data[k] = sections[i].data[k]
                   ELSE sections'[i] = sections[i]
      /\ (last'.op = "removeSection" /\ last'.ret)
           => \E i \in 1..Len(sections) :
                /\ sections[i].id = last'.id
                /\ sections' = SubSeq(sections, 1, i - 1)
                                 \o SubSeq(sections, i + 1, Len(sections)) ]_vars

\* the middle one of three sections was removed after the last one had been
\* renamed: the first and the last are left, in that order, the first with
\* its old name and the last with its new one and its parent reference
C26_Witness ==
  /\ last.op = "removeSection"
  /\ last.ret
  /\ last.id = LocalIds[2]
  /\ Len(sections) = 2
  /\ sections[1].id = LocalIds[1]
  /\ sections[1].data.name = NameA
  /\ sections[2].id = LocalIds[3]
  /\ sections[2].data.name = NameB
  /\ sections[2].data.sectionId = LocalIds[2]

\* C27: the message a broadcast puts on a socket has the type given and the
\* id, userUuid, data and timestamp of the payload, each as it was sent, a
\* timestamp of 0 included; serverTimestamp is the one field it adds.
C27_MessageCarriesEvent ==
  [][ (last'.op = "broadcastToChannel" /\ last'.channel \in DOMAIN channels)
        => \A k \in DOMAIN socketLog :
             Len(socketLog'[k]) > Len(socketLog[k])
               => LET message == socketLog'[k][Len(socketLog'[k])]
                      payload == last'.payload
                  IN /\ message.type = last'.type
                     /\ message.id = EvId(payload)
                     /\ message.userUuid = payload.userUuid
                     /\ message.data = payload.data
                     /\ message.timestamp = payload.timestamp
                     /\ DOMAIN message = {"type", "id", "userUuid", "data",
                                          "timestamp", "serverTimestamp"} ]_vars

\* C28: the record a resolved create adds has the id, the channel and the
\* client timestamp of the event, and its data has every field of the data of
\* the event, whatever the key, with the value the event gave it.
C28_CreateKeepsData ==
  [][ (last'.op = "persist" /\ last'.type = "add-section" /\ last'.resolves)
        => /\ Len(db') = Len(db) + 1
           /\ LET record == db'[Len(db')]
                  payload == last'.payload
              IN /\ record.id = payload.id
                 /\ record.channel = last'.channel
                 /\ record.timestamp = payload.timestamp
                 /\ \A k \in DOMAIN payload.data :
                      /\ k \in DOMAIN record.data
                      /\ record.data[k] = payload.data[k] ]_vars

\* the sockets registered in a channel
SocketsOf(channel) ==
  {channel.sockets[u] : u \in DOMAIN channel.sockets} \ {Null}

\* C29: a broadcast in a channel changes the log of no socket other than
\* those registered in that channel, and a broadcast to a name the registry
\* does not hold changes no log at all and does not throw.
C29_ConfinedToChannel ==
  [][ last'.op = "broadcastToChannel"
        => IF last'.channel \in DOMAIN channels
           THEN \A k \in DOMAIN socketLog :
                  socketLog'[k] # socketLog[k]
                    => k \in SocketsOf(channels[last'.channel])
           ELSE socketLog' = socketLog /\ ~last'.threw ]_vars

\* an event was broadcast in one channel while the same user is connected to
\* the other channel too: the sockets of the other channel have nothing, a
\* socket of this one has the event
C29_Witness ==
  /\ last.op = "broadcastToChannel"
  /\ last.channel = TestChannel
  /\ OtherChannel \in DOMAIN channels
  /\ TestUser \in DOMAIN channels[OtherChannel].sockets
  /\ last.excludeUuid = Null
  /\ \A k \in SocketsOf(channels[OtherChannel]) : socketLog[k] = <<>>
  /\ \A k \in SocketsOf(channels[TestChannel]) : Len(socketLog[k]) = 1

\* the calls of fn made so far, the one under way included
Invocations == Len(retry.calls) + IF retry.pc = "call" THEN 1 ELSE 0

\* the calls of fn that have failed
Failed == {n \in 1..Len(retry.calls) : ~retry.calls[n].ok}

\* C30: a call of retryWithBackoff comes to an end, with fn called at most
\* maxRetries times; only the last call of fn can have succeeded, and then
\* its value is what is returned; the waits are baseDelay, 2 * baseDelay,
\* 4 * baseDelay, ..., one after each failed call but the maxRetries-th, and
\* when all maxRetries calls have failed the error of the last is thrown
\* with no wait after it.
C30_RetryTerminates ==
  /\ (retry.pc \in {"call", "wait"}) ~> (retry.pc = "done")
  /\ [](/\ Invocations <= retry.maxRetries
        /\ \A n \in 1..Len(retry.calls) :
             retry.calls[n].ok => n = Len(retry.calls) /\ retry.pc = "done"
        /\ \A j \in 1..Len(retry.waits) :
             retry.waits[j] = IF j = 1 THEN retry.baseDelay
                              ELSE 2 * retry.waits[j - 1]
        /\ retry.pc = "done" <=> retry.settled # <<>>
        /\ retry.pc \in {"call", "wait"}
             => /\ Failed = 1..Len(retry.calls)
                /\ Len(retry.waits) = Len(retry.calls)
        /\ (retry.pc = "done" /\ retry.maxRetries > 0)
             => LET final == retry.calls[Len(retry.calls)]
                IN /\ retry.calls # <<>>
                   /\ retry.settled[1].value = final.value
                   /\ retry.settled[1].kind
                        = IF final.ok THEN "returned" ELSE "threw"
                   /\ Len(retry.waits) = Len(retry.calls) - 1
                   /\ ~final.ok => Len(retry.calls) = retry.maxRetries)

\* fn failed twice and then succeeded on the third and last round: two
\* waits, the second twice the first, and the value of the third call returned
C30_Witness ==
  /\ retry.pc = "done"
  /\ retry.maxRetries = 3
  /\ Len(retry.calls) = 3
  /\ retry.calls[1].value # retry.calls[2].value
  /\ retry.waits = <<100, 200>>
  /\ retry.settled = Settled("returned", "v2")
====
